---- MODULE Spec2Model ----
(***************************************************************************)
(* SIRIUS: dependency resolution, index cache and build-staleness engine.  *)
(*                                                                         *)
(* Strings (class names, paths) are sequences of one-character strings so  *)
(* that the JavaScript string operations the code relies on (indexOf,      *)
(* split/join, default sort by UTF-16 code unit) are computed as the code  *)
(* computes them.                                                          *)
(***************************************************************************)
EXTENDS Integers, Sequences, FiniteSets, TLC

VARIABLES proj, cache, last

vars == <<proj, cache, last>>

(***************************************************************************)
(* Bounds of the model.                                                    *)
(***************************************************************************)
MaxIndexLen == 2
MaxReqLen == 2
MaxTime == 1

(***************************************************************************)
(* JavaScript values and string primitives.                                *)
(***************************************************************************)
\* The value `undefined` (what a function that falls off its end returns, or
\* a missing property reads as), and a defined value v.
Undefined == [def |-> FALSE]

Defined(v) == [def |-> TRUE, v |-> v]

\* UTF-16 code units of the characters that occur in the modelled names.
codeUnit ==
    [c \in {"*", "-", ".", "/", "A", "B", "C", "D", "a", "b", "c", "d",
            "e", "i", "l", "n", "r", "s", "w", "x"} |->
        CASE c = "*" -> 42 [] c = "-" -> 45 [] c = "." -> 46 [] c = "/" -> 47
          [] c = "A" -> 65 [] c = "B" -> 66 [] c = "C" -> 67 [] c = "D" -> 68
          [] c = "a" -> 97 [] c = "b" -> 98 [] c = "c" -> 99 [] c = "d" -> 100
          [] c = "e" -> 101 [] c = "i" -> 105 [] c = "l" -> 108
          [] c = "n" -> 110 [] c = "r" -> 114 [] c = "s" -> 115
          [] c = "w" -> 119 [] c = "x" -> 120]

\* a < b in the order Array.prototype.sort() uses without a comparator.
RECURSIVE StrLess(_, _)
StrLess(a, b) ==
    IF a = <<>> THEN b # <<>>
    ELSE IF b = <<>> THEN FALSE
    ELSE IF Head(a) = Head(b) THEN StrLess(Tail(a), Tail(b))
    ELSE codeUnit[Head(a)] < codeUnit[Head(b)]

\* testFQN.indexOf(prefix) === 0
StartsWith(s, prefix) ==
    /\ Len(prefix) <= Len(s)
    /\ SubSeq(s, 1, Len(prefix)) = prefix

\* arr.indexOf(x) !== -1
Includes(arr, x) == \E i \in 1..Len(arr) : arr[i] = x

\* Position of the last c in s, 0 when there is none.
LastIndexOf(s, c) ==
    LET hits == {i \in 1..Len(s) : s[i] = c}
    IN  IF hits = {} THEN 0 ELSE CHOOSE i \in hits : \A j \in hits : j <= i

\* The array left in the order it was filled in, the sort left out.
sortSkipped(arr) == arr

\* arr.sort(): ascending by code unit (the elements are pairwise distinct here).
RECURSIVE SortStrings(_)
SortStrings(arr) ==
    IF arr = <<>> THEN <<>>
    ELSE LET m == CHOOSE i \in 1..Len(arr) :
                      \A j \in 1..Len(arr) : ~StrLess(arr[j], arr[i])
             rest == [k \in 1..(Len(arr) - 1) |->
                          IF k < m THEN arr[k] ELSE arr[k + 1]]
         IN  <<arr[m]>> \o SortStrings(rest)

\* arr.reverse()
Reverse(arr) == [k \in 1..Len(arr) |-> arr[Len(arr) + 1 - k]]

\* path.dirname(p) of an absolute POSIX path without a trailing slash.
dirname(p) ==
    LET k == LastIndexOf(p, "/")
    IN  IF k <= 1 THEN <<"/">> ELSE SubSeq(p, 1, k - 1)

\* path.basename(p)
basename(p) == SubSeq(p, LastIndexOf(p, "/") + 1, Len(p))

(***************************************************************************)
(* getMatchingSWCs (sirius.js.old 493-545).                                *)
(***************************************************************************)
\* fqn[fqn.length - 1] === '*'
havePartialFqn(fqn) == fqn # <<>> /\ fqn[Len(fqn)] = "*"

\* fqn.split('.').slice(0, -1).join('.')
partialFqnOf(fqn) ==
    LET k == LastIndexOf(fqn, ".")
    IN  IF k = 0 THEN <<>> ELSE SubSeq(fqn, 1, k - 1)

\* record[searchField], `undefined` when the record has no such property.
fieldOf(record, searchField) ==
    IF searchField \in DOMAIN record THEN Defined(record[searchField])
    ELSE Undefined

\* The filter callback of lines 516-527: "TypeError" when it dereferences
\* an undefined class list (testFQNs.filter on line 520).
recordMatches(record, fqn, searchField) ==
    IF havePartialFqn(fqn)
    THEN LET partialFqn == partialFqnOf(fqn)
             testFQNs == fieldOf(record, searchField)
         IN  IF ~testFQNs.def THEN "TypeError"
             ELSE IF \E i \in 1..Len(testFQNs.v) :
                         StartsWith(testFQNs.v[i], partialFqn)
                  THEN "yes" ELSE "no"
    ELSE LET testFQNs == fieldOf(record, searchField)
         IN  IF testFQNs.def /\ Includes(testFQNs.v, fqn)
             THEN "yes" ELSE "no"

\* inclusions.filter(...).map(record => record.swcPath), lines 516-529.
RECURSIVE filterMatching(_, _, _)
filterMatching(inclusions, fqn, searchField) ==
    IF inclusions = <<>> THEN <<>>
    ELSE LET rest == filterMatching(Tail(inclusions), fqn, searchField)
         IN  IF recordMatches(Head(inclusions), fqn, searchField) = "yes"
             THEN <<Head(inclusions).swcPath>> \o rest
             ELSE rest

\* Whether the filter of one requested class throws.
filterThrows(inclusions, fqn, searchField) ==
    \E i \in 1..Len(inclusions) :
        recordMatches(inclusions[i], fqn, searchField) = "TypeError"

\* Lines 530-535: a collision on an exact class keeps the first match only.
collides(fqn, matchingSWCs) == ~havePartialFqn(fqn) /\ Len(matchingSWCs) > 1

keepAllMatches(fqn, matchingSWCs) == matchingSWCs

keepFirstOnCollision(fqn, matchingSWCs) ==
    IF collides(fqn, matchingSWCs) THEN SubSeq(matchingSWCs, 1, 1)
    ELSE matchingSWCs

\* The matchingSWCs of one iteration of the forEach, after line 535.
matchingSWCsOf(inclusions, fqn, searchField) ==
    keepFirstOnCollision(fqn, filterMatching(inclusions, fqn, searchField))

\* Lines 536-540: push the matches not yet in swcPaths.
pushAll(swcPaths, matches) == swcPaths \o matches

RECURSIVE pushNew(_, _)
pushNew(swcPaths, matches) ==
    IF matches = <<>> THEN swcPaths
    ELSE LET match == Head(matches)
         IN  IF match # <<>> /\ ~Includes(swcPaths, match)
             THEN pushNew(Append(swcPaths, match), Tail(matches))
             ELSE pushNew(swcPaths, Tail(matches))

\* The forEach over classFQNs, lines 514-541.  acc carries swcPaths, the
\* matchingSWCs of every iteration and the number of $print calls made.
RECURSIVE forEachFqn(_, _, _, _)
forEachFqn(inclusions, classFQNs, searchField, acc) ==
    IF classFQNs = <<>> THEN acc
    ELSE LET fqn == Head(classFQNs)
         IN  IF filterThrows(inclusions, fqn, searchField)
             THEN [acc EXCEPT !.st = "TypeError"]
             ELSE LET found == filterMatching(inclusions, fqn, searchField)
                      kept == matchingSWCsOf(inclusions, fqn, searchField)
                  IN  forEachFqn(inclusions, Tail(classFQNs), searchField,
                          [st |-> "ok",
                           swcPaths |-> pushNew(acc.swcPaths, kept),
                           matches |-> Append(acc.matches, kept),
                           prints |-> acc.prints
                               \o (IF collides(fqn, found)
                                   THEN <<[fqn |-> fqn, swcs |-> found]>>
                                   ELSE <<>>)])

\* The whole function, given arrays.  st is "ok" or "TypeError"; val is the
\* returned list.  searchField "undefined" is the omitted third argument.
getMatchingSWCs(inclusions, classFQNs, searchField) ==
    LET field == IF searchField = "undefined" THEN "swcClasses"
                 ELSE searchField
        empty == [st |-> "ok", swcPaths |-> <<>>, matches |-> <<>>,
                  prints |-> <<>>]
    IN  IF inclusions = <<>>
        THEN [st |-> "ok", val |-> <<>>, matches |-> <<>>, prints |-> <<>>]
        ELSE IF classFQNs = <<>>
        THEN [st |-> "ok", val |-> <<>>, matches |-> <<>>, prints |-> <<>>]
        ELSE LET acc == forEachFqn(inclusions, classFQNs, field, empty)
             IN  [st |-> acc.st,
                  val |-> IF acc.st = "ok"
                          THEN Reverse(SortStrings(acc.swcPaths)) ELSE <<>>,
                  matches |-> acc.matches,
                  prints |-> acc.prints]

\* $print (lines 166-189), given the marker letter that opens the message
\* and the message: what reaches the console.  With mustPrintLess set a
\* message whose marker is not one of e, I, W is dropped (lines 170-174);
\* otherwise the arguments are coloured and RESET is pushed (lines 177-188),
\* and the function ends without writing them anywhere.
unmuteable(marker) == marker \in {"e", "I", "W"}

dollarPrint(mustPrintLess, marker, message) ==
    IF mustPrintLess /\ ~unmuteable(marker) THEN <<>>
    ELSE SubSeq(<<message>>, 1, 0)

\* What the $print calls of getMatchingSWCs (line 531, marker w) leave on
\* the console.
RECURSIVE consoleOf(_, _)
consoleOf(mustPrintLess, prints) ==
    IF prints = <<>> THEN <<>>
    ELSE dollarPrint(mustPrintLess, "w", Head(prints))
             \o consoleOf(mustPrintLess, Tail(prints))

(***************************************************************************)
(* Names of the modelled workspace /w with the sibling projects A, B, C.   *)
(***************************************************************************)
SL == <<"/">>

WS == <<"/", "w">>

ProjNames == {<<"A">>, <<"B">>, <<"C">>}

\* const binFolderPath, libFolderPath, sourceFolderPath (lines 82-84)
binFolderPath == <<"b", "i", "n">>

libFolderPath == <<"l", "i", "b">>

sourceFolderPath == <<"s", "r", "c">>

\* const swcFileType[0], swfFileType[0] (lines 77-78)
swcFileType == <<"s", "w", "c">>

swfFileType == <<"s", "w", "f">>

projectPath(n) == WS \o SL \o n

\* Class names used by the samples.
cls_a_B == <<"a", ".", "B">>

cls_a_C == <<"a", ".", "C">>

cls_ab_C == <<"a", "b", ".", "C">>

cls_b_D == <<"b", ".", "D">>

cls_B == <<"B">>

cls_a == <<"a">>

ref_a_star == <<"a", ".", "*">>

ref_c_star == <<"c", ".", "*">>

ref_star == <<"*">>

swcOfA == projectPath(<<"A">>) \o SL \o binFolderPath \o SL \o <<"a", ".">> \o swcFileType

swcOfB == projectPath(<<"B">>) \o SL \o binFolderPath \o SL \o <<"b", ".">> \o swcFileType

swcInLibC == projectPath(<<"C">>) \o SL \o libFolderPath \o SL \o <<"x", ".">> \o swcFileType

(***************************************************************************)
(* Inputs of the resolver: inclusion records as getInclusionsMap builds    *)
(* them (a source-scanned library has both class lists, an archive found   *)
(* in a lib folder has swcClasses only, lines 627-630 and 656-666).        *)
(***************************************************************************)
recA == [swcPath |-> swcOfA, swcClasses |-> <<cls_a_B, cls_a_C>>,
         globalSwcClasses |-> <<>>]

recB == [swcPath |-> swcOfB, swcClasses |-> <<cls_b_D, cls_a_B>>,
         globalSwcClasses |-> <<cls_B>>]

recB2 == [swcPath |-> swcOfB, swcClasses |-> <<cls_ab_C>>,
          globalSwcClasses |-> <<cls_a, cls_B>>]

recX == [swcPath |-> swcInLibC, swcClasses |-> <<cls_ab_C, cls_a_B>>]

\* The record of an archive in the lib folder of C that declares a.C.
recLibC == [swcPath |-> swcInLibC, swcClasses |-> <<cls_a_C>>]

RecordPool == {recA, recB, recB2, recX}

RECURSIVE SeqsUpTo(_, _)
SeqsUpTo(S, n) ==
    IF n = 0 THEN {<<>>}
    ELSE LET shorter == SeqsUpTo(S, n - 1)
         IN  shorter \cup {Append(q, x) : q \in shorter, x \in S}

IndexSamples == SeqsUpTo(RecordPool, MaxIndexLen)

RequestPool == {cls_a_B, cls_ab_C, cls_b_D, cls_B, ref_a_star, ref_c_star,
                ref_star}

RequestSamples == SeqsUpTo(RequestPool, MaxReqLen)

SearchFields == {"undefined", "swcClasses", "globalSwcClasses"}

Idle == [op |-> "idle"]

(***************************************************************************)
(* Specification of the resolver alone: every step applies getMatchingSWCs *)
(* to one index, one request list and one search field.                    *)
(***************************************************************************)
NoProject == [kind |-> "none", src |-> FALSE, srcTime |-> 0, bin |-> FALSE,
              art |-> FALSE, artTime |-> 0]

CacheAbsent == [kind |-> "absent", inclusions |-> <<>>]

ResolveInit ==
    /\ proj = [n \in ProjNames |-> NoProject]
    /\ cache = CacheAbsent
    /\ \E inclusions \in IndexSamples, classFQNs \in RequestSamples,
          searchField \in SearchFields, mustPrintLess \in BOOLEAN :
           last = [op |-> "call", inclusions |-> inclusions,
                   classFQNs |-> classFQNs, searchField |-> searchField,
                   mustPrintLess |-> mustPrintLess]

Resolve ==
    /\ last.op = "call"
    /\ last' = [op |-> "getMatchingSWCs",
                inclusions |-> last.inclusions,
                classFQNs |-> last.classFQNs,
                searchField |-> IF last.searchField = "undefined"
                                THEN "swcClasses" ELSE last.searchField,
                mustPrintLess |-> last.mustPrintLess,
                console |-> consoleOf(last.mustPrintLess,
                                getMatchingSWCs(last.inclusions,
                                    last.classFQNs, last.searchField).prints),
                out |-> getMatchingSWCs(last.inclusions, last.classFQNs,
                                        last.searchField)]
    /\ UNCHANGED <<proj, cache>>

ResolveNext == Resolve

SpecResolve == ResolveInit /\ [][ResolveNext]_vars

(***************************************************************************)
(* The file system.  A world w holds the projects of the workspace, the    *)
(* cache file and the log of the calls and file operations made so far.    *)
(*   proj[n].kind    "none" | "file" | "dir": what is at /w/n              *)
(*   proj[n].src     /w/n/src exists (a directory), with the source files  *)
(*                   of the layout below, all modified at srcTime          *)
(*   proj[n].bin     /w/n/bin exists                                       *)
(*   proj[n].art     the expected artifact exists in bin, modified artTime *)
(*   cache.kind      "absent" | "blank" | "garbage" | "json"               *)
(***************************************************************************)
\* const inclusionsFileName (line 87), abbreviated.
inclusionsFileName == <<"c", "a", "c", "h", "e">>

cacheFileOf(searchPath) == searchPath \o SL \o inclusionsFileName

\* The source files of each project, in directory-walk order.  refs are
\* the class references an import or inline match finds in the text;
\* appTag tells whether the header holds a WindowedApplication tag.
SourceLayout ==
    [n \in ProjNames |->
        CASE n = <<"A">> ->
                <<[rel |-> <<"a", "/", "B", ".", "a", "s">>,
                   refs |-> <<cls_a_C>>, appTag |-> FALSE],
                  [rel |-> <<"a", "/", "C", ".", "a", "s">>,
                   refs |-> <<>>, appTag |-> FALSE]>>
          [] n = <<"B">> ->
                <<[rel |-> <<"b", "/", "D", ".", "a", "s">>,
                   refs |-> <<>>, appTag |-> FALSE]>>
          [] n = <<"C">> ->
                <<[rel |-> <<"C", ".", "m", "x", "m", "l">>,
                   refs |-> <<ref_a_star, cls_b_D>>, appTag |-> TRUE]>>]

srcPathOf(n) == projectPath(n) \o SL \o sourceFolderPath

binPathOf(n) == projectPath(n) \o SL \o binFolderPath

\* String.prototype.toLowerCase on the modelled alphabet.
toLowerCase(str) ==
    [i \in 1..Len(str) |->
        CASE str[i] = "A" -> "a" [] str[i] = "B" -> "b"
          [] str[i] = "C" -> "c" [] str[i] = "D" -> "d"
          [] OTHER -> str[i]]

\* /[\W_]+/g of libNameReplacePattern (line 114): the non-word characters.
isNonWord(c) == c \in {"*", "-", ".", "/", "_", " "}

\* toBinaryFileName (lines 199-201): lower-cased, every run of non-word
\* characters replaced by one '-'.
RECURSIVE replaceNonWordRuns(_, _)
replaceNonWordRuns(str, inRun) ==
    IF str = <<>> THEN <<>>
    ELSE IF isNonWord(Head(str))
         THEN (IF inRun THEN <<>> ELSE <<"-">>)
                  \o replaceNonWordRuns(Tail(str), TRUE)
         ELSE <<Head(str)>> \o replaceNonWordRuns(Tail(str), FALSE)

toBinaryFileName(rawName) == replaceNonWordRuns(toLowerCase(rawName), FALSE)

\* The artifact the project at /w/n is expected to produce: bin/<app>.swf
\* for the application C (its entry file is C.mxml), bin/<project>.swc for
\* a library (lines 391-399).
artPathOf(n) ==
    binPathOf(n) \o SL \o toBinaryFileName(n) \o <<".">>
        \o (IF \E i \in 1..Len(SourceLayout[n]) : SourceLayout[n][i].appTag
            THEN swfFileType ELSE swcFileType)

srcFilePath(n, i) == srcPathOf(n) \o SL \o SourceLayout[n][i].rel

\* fs.existsSync
existsSync(w, p) ==
    \/ p = SL
    \/ p = WS
    \/ p = cacheFileOf(WS) /\ w.cache.kind # "absent"
    \/ \E n \in ProjNames :
        \/ p = projectPath(n) /\ w.proj[n].kind # "none"
        \/ /\ w.proj[n].kind = "dir"
           /\ \/ p = srcPathOf(n) /\ w.proj[n].src
              \/ p = binPathOf(n) /\ w.proj[n].bin
              \/ p = artPathOf(n) /\ w.proj[n].bin /\ w.proj[n].art
              \/ /\ w.proj[n].src
                 /\ \E i \in 1..Len(SourceLayout[n]) :
                        p = srcFilePath(n, i) \/ p = dirname(srcFilePath(n, i))

\* fs.statSync(p).isDirectory() of file_management_utils.js line 182.
isDirectory(w, p) ==
    /\ existsSync(w, p)
    /\ p # cacheFileOf(WS)
    /\ \A n \in ProjNames :
        /\ p = projectPath(n) => w.proj[n].kind = "dir"
        /\ p # artPathOf(n)
        /\ \A i \in 1..Len(SourceLayout[n]) : p # srcFilePath(n, i)

\* fs.statSync(p).mtime.getTime() of a source or artifact file.
mtimeOf(w, p) ==
    LET n == CHOOSE m \in ProjNames : StartsWith(p, projectPath(m) \o SL)
    IN  IF p = artPathOf(n) THEN w.proj[n].artTime ELSE w.proj[n].srcTime

Ev(ev, path) == [ev |-> ev, path |-> path]

logged(w, ev, path) == [w EXCEPT !.log = Append(@, Ev(ev, path))]

\* What a function hands back: st is "ok" or "TypeError" (an uncaught
\* exception that propagates to the caller), val the returned value, w the
\* world afterwards.
Ret(val, w) == [st |-> "ok", val |-> val, w |-> w]

Throw(w) == [st |-> "TypeError", val |-> FALSE, w |-> w]

(***************************************************************************)
(* file_management_utils.js                                                *)
(***************************************************************************)
\* listFiles (lines 180-289).  An invalid folder returns [] on line 184.
\* Otherwise the walk fills allPaths; with filters given, line 277 assigns
\* to the const allPaths, which throws a TypeError inside the try and is
\* caught on line 282 (likewise line 280); and in every case the function
\* ends on line 289 without a return statement, so its value is undefined.
listFiles(w, folder, filters, useRelativePaths, dropExtension) ==
    IF ~existsSync(w, folder) \/ ~isDirectory(w, folder)
    THEN Defined(<<>>)
    ELSE Undefined

\* listFolders (lines 56-58)
listFolders(w, parentFolder) ==
    listFiles(w, parentFolder, <<"FOLDERS_ONLY">>, FALSE, FALSE)

\* pathsAreEqual (lines 83-101): realpathSync throws on a missing path and
\* the catch returns false; no symbolic links and no win32 in the model.
pathsAreEqual(w, path1, path2) ==
    IF ~existsSync(w, path1) \/ ~existsSync(w, path2) THEN FALSE
    ELSE path1 = path2

\* deletePathNode (lines 37-50) of an existing file: the artifact of a
\* project or the cache file.
deletePathNode(w, p) ==
    IF ~existsSync(w, p) THEN w
    ELSE LET w1 == logged(w, "unlink", p)
         IN  IF p = cacheFileOf(WS)
             THEN [w1 EXCEPT !.cache = CacheAbsent]
             ELSE IF \E n \in ProjNames : p = artPathOf(n)
             THEN LET n == CHOOSE m \in ProjNames : p = artPathOf(m)
                  IN  [w1 EXCEPT !.proj[n].art = FALSE,
                                 !.proj[n].artTime = 0]
             ELSE w1

(***************************************************************************)
(* sirius.js.old: the helpers of the index build and of the checks.        *)
(***************************************************************************)
\* The first element of arr.sort((a, b) => a.length - b.length).
shortestFirst(arr) ==
    arr[CHOOSE i \in 1..Len(arr) :
            /\ \A j \in 1..Len(arr) : Len(arr[i]) <= Len(arr[j])
            /\ \A j \in 1..(i - 1) : Len(arr[j]) > Len(arr[i])]

\* getSrcFolderOf (lines 754-771).  On an existing path the result of
\* listFiles is filtered at once (line 757): a TypeError when it is
\* undefined.  val is the folder, or Undefined for null / allFolders[0] of
\* an empty list.
getSrcFolderOf(w, projectFolder, bypassWarning) ==
    IF existsSync(w, projectFolder)
    THEN LET found == listFiles(w, projectFolder, <<"**">>, FALSE, FALSE)
             isSrc(folderPath) == basename(folderPath) = sourceFolderPath
         IN  IF ~found.def THEN Throw(w)
             ELSE LET allFolders == SelectSeq(found.v, isSrc)
                  IN  IF allFolders = <<>> THEN Ret(Undefined, w)
                      ELSE Ret(Defined(shortestFirst(allFolders)), w)
    ELSE Ret(Undefined, w)

\* Whether the header of the source file at path p holds an application tag
\* (lines 236-238).
hasApplicationTag(p) ==
    \E n \in ProjNames : \E i \in 1..Len(SourceLayout[n]) :
        p = srcFilePath(n, i) /\ SourceLayout[n][i].appTag

\* getProjectApplications (lines 225-254): the application entry files of a
\* source folder (all files of one project carry the same modification time,
\* so the sort of line 248 keeps their order).
getProjectApplications(w, sourceFolder) ==
    IF existsSync(w, sourceFolder)
    THEN LET mxmlFiles == listFiles(w, sourceFolder, <<"mxml">>, FALSE, FALSE)
         IN  IF ~mxmlFiles.def THEN Throw(w)
             ELSE Ret(SelectSeq(mxmlFiles.v, hasApplicationTag), w)
    ELSE Ret(<<>>, w)

\* The class references the text of the source file at path p contains
\* (lines 270-302).
refsOfFile(p) ==
    LET n == CHOOSE m \in ProjNames :
                 \E i \in 1..Len(SourceLayout[m]) : p = srcFilePath(m, i)
        i == CHOOSE k \in 1..Len(SourceLayout[n]) : p = srcFilePath(n, k)
    IN  SourceLayout[n][i].refs

RECURSIVE collectFqns(_, _)
collectFqns(files, fqns) ==
    IF files = <<>> THEN fqns
    ELSE collectFqns(Tail(files), pushNew(fqns, refsOfFile(Head(files))))

\* listClassImports (lines 261-306): reads sourceFilesInFolder.length on
\* line 264, a TypeError when listFiles returned undefined.
listClassImports(w, folder) ==
    LET sourceFilesInFolder ==
            listFiles(w, folder, <<"as", "mxml", "fxg">>, FALSE, FALSE)
    IN  IF ~sourceFilesInFolder.def THEN Throw(w)
        ELSE Ret(SortStrings(collectFqns(sourceFilesInFolder.v, <<>>)), w)

\* The key of the sort in consolidateInclusions (lines 319-327).
classCount(record, field) ==
    IF field \in DOMAIN record THEN Len(record[field]) ELSE 0

\* The comparator with the counts of swcClasses alone.
sortsBeforeQualifiedOnly(recordA, recordB) ==
    classCount(recordA, "swcClasses") < classCount(recordB, "swcClasses")

sortsBefore(recordA, recordB) ==
    LET swcClassesDelta == classCount(recordA, "swcClasses")
                               - classCount(recordB, "swcClasses")
        globalSwcClassesDelta == classCount(recordA, "globalSwcClasses")
                                     - classCount(recordB, "globalSwcClasses")
    IN  (IF swcClassesDelta # 0 THEN swcClassesDelta
         ELSE globalSwcClassesDelta) < 0

\* Stable insertion of one record into a list sorted by that key.
RECURSIVE insertSorted(_, _)
insertSorted(sorted, record) ==
    IF sorted = <<>> THEN <<record>>
    ELSE IF sortsBefore(record, Head(sorted))
         THEN <<record>> \o sorted
         ELSE <<Head(sorted)>> \o insertSorted(Tail(sorted), record)

RECURSIVE sortInclusions(_)
sortInclusions(inclusions) ==
    IF inclusions = <<>> THEN <<>>
    ELSE insertSorted(
             sortInclusions(SubSeq(inclusions, 1, Len(inclusions) - 1)),
             inclusions[Len(inclusions)])

\* consolidateInclusions (lines 313-329): push a record that has classes,
\* then sort the whole list.
consolidateInclusions(inclusionEntry, inclusions) ==
    sortInclusions(
        IF classCount(inclusionEntry, "swcClasses") > 0
               \/ classCount(inclusionEntry, "globalSwcClasses") > 0
        THEN Append(inclusions, inclusionEntry)
        ELSE inclusions)

\* getClassesFQNames (lines 693-698): path separators become dots.
getClassesFQNames(classFiles) ==
    [k \in 1..Len(classFiles) |->
        [i \in 1..Len(classFiles[k]) |->
            IF classFiles[k][i] = "/" THEN "." ELSE classFiles[k][i]]]

\* getWorkspacePaths(targetFolder)[0] (lines 813-838) with SIRIUS installed
\* two levels below the root, so that workspaceParentDir is "/": the
\* workspace is the first segment of the lower-cased target path.
getWorkspacePath(targetFolder) ==
    LET safeProjectFolder == toLowerCase(targetFolder)
        rest == Tail(safeProjectFolder)
        cut == IF Includes(rest, "/")
               THEN (CHOOSE i \in 1..Len(rest) :
                         rest[i] = "/" /\ \A j \in 1..(i - 1) : rest[j] # "/")
               ELSE Len(rest) + 1
    IN  IF StartsWith(safeProjectFolder, SL)
        THEN (IF cut > 1 THEN SL \o SubSeq(rest, 1, cut - 1)
              ELSE dirname(targetFolder))
        ELSE dirname(targetFolder)

(***************************************************************************)
(* getInclusionsMap (lines 582-688).  Each function is written as a chain  *)
(* of steps, one per statement that can throw; a step receives the values  *)
(* computed so far.                                                        *)
(***************************************************************************)
\* The class lists of a library entry (lines 656-666); the layout holds no
\* unit-test classes.
qualifiedOf(classFQNames) ==
    LET keep(className) == Includes(className, ".")
    IN  SelectSeq(classFQNames, keep)

unqualifiedOf(classFQNames) ==
    LET keep(className) == ~Includes(className, ".")
    IN  SelectSeq(classFQNames, keep)

\* Lines 653-666: the entry of a library project.
libraryEntry(dirPath, classFiles) ==
    [swcPath |-> dirPath \o SL \o binFolderPath \o SL
                     \o toBinaryFileName(basename(dirPath)) \o <<".">>
                     \o swcFileType,
     swcClasses |-> qualifiedOf(getClassesFQNames(classFiles)),
     globalSwcClasses |-> unqualifiedOf(getClassesFQNames(classFiles))]

RECURSIVE scanWorkspaceDirs(_, _, _, _)

\* Lines 648-677 without the test of line 651: every candidate project is
\* recorded as a library.
scanLibraryAlways(w, workspaceDirs, inclusions, silentMode, projectsApps, classFiles) ==
    IF projectsApps.st # "ok" THEN Throw(w)
    ELSE IF ~classFiles.def THEN Throw(w)
    ELSE scanWorkspaceDirs(w, Tail(workspaceDirs),
             consolidateInclusions(
                 libraryEntry(Head(workspaceDirs), classFiles.v), inclusions),
             silentMode)

\* Lines 648-677, given the application entry files and the class files.
scanLibrary(w, workspaceDirs, inclusions, silentMode, projectsApps, classFiles) ==
    IF projectsApps.st # "ok" THEN Throw(w)             \* line 648
    ELSE IF projectsApps.val # <<>>                     \* line 651
    THEN scanWorkspaceDirs(w, Tail(workspaceDirs), inclusions, silentMode)
    ELSE IF ~classFiles.def THEN Throw(w)               \* line 655
    ELSE scanWorkspaceDirs(w, Tail(workspaceDirs),
             consolidateInclusions(
                 libraryEntry(Head(workspaceDirs), classFiles.v), inclusions),
             silentMode)

\* Lines 639-678, given the source folder of the candidate project.
scanSources(w, workspaceDirs, inclusions, silentMode, sourceFolder) ==
    IF sourceFolder.st # "ok" THEN Throw(w)             \* line 642
    ELSE IF sourceFolder.val.def /\ existsSync(w, sourceFolder.val.v)
    THEN scanLibrary(w, workspaceDirs, inclusions, silentMode,
             getProjectApplications(w, sourceFolder.val.v),
             listFiles(w, sourceFolder.val.v, <<"as", "mxml", "fxg">>,
                       TRUE, TRUE))
    ELSE scanWorkspaceDirs(w, Tail(workspaceDirs), inclusions, silentMode)

\* Lines 623-633, given the listing of the lib folder: libFiles.forEach
\* throws when the listing is undefined.
scanArchives(w, workspaceDirs, inclusions, silentMode, libFolder, libFiles) ==
    IF existsSync(w, libFolder) /\ ~libFiles.def
    THEN Throw(w)                                       \* line 626
    ELSE scanSources(w, workspaceDirs, inclusions, silentMode,
             getSrcFolderOf(w, Head(workspaceDirs), silentMode))

\* The loop of lines 612-679 over the remaining workspaceDirs.
scanWorkspaceDirs(w, workspaceDirs, inclusions, silentMode) ==
    IF workspaceDirs = <<>> THEN Ret(inclusions, w)
    ELSE scanArchives(w, workspaceDirs, inclusions, silentMode,
             Head(workspaceDirs) \o SL \o libFolderPath,
             listFiles(w, Head(workspaceDirs) \o SL \o libFolderPath,
                       <<"swc">>, FALSE, FALSE))

\* Lines 585-605: what reading the cache file yields.  The cache holds the
\* JSON text of an index, of which JSON.parse gives back the same records
\* (strings and lists of strings); a blank file is read as '' and not
\* parsed; any other text makes JSON.parse throw.
readCache(w, searchPath) ==
    [cacheExists |-> existsSync(w, cacheFileOf(searchPath)),
     cacheCorrupted |-> existsSync(w, cacheFileOf(searchPath))
                            /\ w.cache.kind = "garbage",
     inclusions |-> IF existsSync(w, cacheFileOf(searchPath))
                           /\ w.cache.kind = "json"
                    THEN w.cache.inclusions ELSE <<>>]

\* Line 608: when the index is built anew.
mustRebuildAlways(read) == TRUE

mustRebuild(read) == ~read.cacheExists \/ read.cacheCorrupted

\* Line 682: the built index is written to the cache file.
writeCache(built, searchPath) ==
    IF built.st # "ok" THEN Throw(built.w)
    ELSE Ret(built.val,
             [logged(built.w, "writeFile", cacheFileOf(searchPath))
                 EXCEPT !.cache = [kind |-> "json", inclusions |-> built.val]])

\* Lines 609-687 with the write of line 682 moved before the loop: the
\* cache file receives the index as it stands before the scan.
rebuildWritingFirst(w, searchPath, silentMode, inclusions, workspaceDirs) ==
    IF ~workspaceDirs.def
    THEN Throw(writeCache(Ret(inclusions, w), searchPath).w)
    ELSE writeCache(
             scanWorkspaceDirs(writeCache(Ret(inclusions, w), searchPath).w,
                 workspaceDirs.v, inclusions, silentMode), searchPath)

\* Lines 609-687, given the listing of the workspace.
rebuildInclusions(w, searchPath, silentMode, inclusions, workspaceDirs) ==
    IF ~workspaceDirs.def THEN Throw(w)                 \* line 612
    ELSE writeCache(scanWorkspaceDirs(w, workspaceDirs.v, inclusions,
                                      silentMode), searchPath)

\* Lines 606-688, given what the cache file yielded.
inclusionsFrom(w, searchPath, silentMode, read) ==
    IF mustRebuild(read)
    THEN rebuildInclusions(logged(w, "listFolders", searchPath), searchPath,
             silentMode, read.inclusions,
             listFolders(logged(w, "listFolders", searchPath), searchPath))
    ELSE Ret(read.inclusions, w)

getInclusionsMap(w, searchPath, silentMode) ==
    inclusionsFrom(logged(w, "getInclusionsMap", searchPath), searchPath,
        silentMode,
        readCache(logged(w, "getInclusionsMap", searchPath), searchPath))

(***************************************************************************)
(* mustBuildProject (lines 361-414) and deleteCache (lines 420-471).       *)
(***************************************************************************)
\* path.basename(p, path.extname(p))
baseNameNoExt(p) ==
    IF LastIndexOf(basename(p), ".") <= 1 THEN basename(p)
    ELSE SubSeq(basename(p), 1, LastIndexOf(basename(p), ".") - 1)

\* Lines 388-399 and 444-455: the one binary file the project is expected
\* to produce, given its application entry files.
binaryFilePathOf(projectFolderPath, binFolder, projectApplications) ==
    IF projectApplications # <<>>
    THEN binFolder \o SL
             \o toBinaryFileName(baseNameNoExt(projectApplications[1]))
             \o <<".">> \o swfFileType
    ELSE binFolder \o SL \o toBinaryFileName(basename(projectFolderPath))
             \o <<".">> \o swcFileType

\* path.resolve(path.dirname(sourceFolder), binFolderPath), lines 365, 443
binFolderOf(sourceFolder) == dirname(sourceFolder) \o SL \o binFolderPath

\* Lines 405-410: some source file is strictly newer than the binary.
newerThan(srcFileModificationTime, binaryFileModificationTime) ==
    srcFileModificationTime > binaryFileModificationTime

someSourceNewer(w, srcFiles, binaryFileModificationTime) ==
    \E i \in 1..Len(srcFiles) :
        newerThan(mtimeOf(w, srcFiles[i]), binaryFileModificationTime)

RECURSIVE mustBuildProject(_, _)
RECURSIVE mustBuildDependencies(_, _, _)

\* Lines 382-385, given the verdict of the dependency.
afterDependency(dep, externalSWCs, projectFolderPath) ==
    IF dep.st # "ok" THEN Throw(dep.w)
    ELSE IF dep.val THEN Ret(TRUE, dep.w)
    ELSE mustBuildDependencies(dep.w, Tail(externalSWCs), projectFolderPath)

\* The loop of lines 376-385 over the remaining externalSWCs; val is TRUE
\* when a dependency must be built (the loop returns at the first one).
mustBuildDependencies(w, externalSWCs, projectFolderPath) ==
    IF externalSWCs = <<>> THEN Ret(FALSE, w)
    ELSE IF pathsAreEqual(w, dirname(dirname(Head(externalSWCs))),
                          projectFolderPath)
    THEN mustBuildDependencies(w, Tail(externalSWCs), projectFolderPath)
    ELSE afterDependency(
             mustBuildProject(w, dirname(dirname(Head(externalSWCs)))),
             externalSWCs, projectFolderPath)

\* Lines 400-410, given the expected binary and the listing of the sources.
mustBuildBinary(w, binaryFilePath, srcFiles) ==
    IF ~existsSync(w, binaryFilePath) THEN Ret(TRUE, w)
    ELSE IF ~srcFiles.def THEN Throw(w)                 \* line 405
    ELSE Ret(someSourceNewer(w, srcFiles.v, mtimeOf(w, binaryFilePath)), w)

\* Lines 387-410, given the application entry files.
mustBuildItself(w, projectFolderPath, sourceFolder, apps) ==
    IF apps.st # "ok" THEN Throw(w)                     \* line 388
    ELSE mustBuildBinary(w,
             binaryFilePathOf(projectFolderPath, binFolderOf(sourceFolder),
                              apps.val),
             listFiles(w, sourceFolder, <<"*.*">>, FALSE, FALSE))

\* Lines 376-410, given the verdict of the dependency loop.
mustBuildAfterDeps(deps, projectFolderPath, sourceFolder) ==
    IF deps.st # "ok" THEN Throw(deps.w)
    ELSE IF deps.val THEN Ret(TRUE, deps.w)
    ELSE mustBuildItself(deps.w, projectFolderPath, sourceFolder,
                         getProjectApplications(deps.w, sourceFolder))

\* Lines 375-410, given the resolved artifacts.
mustBuildResolved(w, externalSWCs, projectFolderPath, sourceFolder) ==
    IF externalSWCs.st # "ok" THEN Throw(w)
    ELSE mustBuildAfterDeps(
             mustBuildDependencies(w, externalSWCs.val, projectFolderPath),
             projectFolderPath, sourceFolder)

\* Lines 374-410, given the index and the class references of the sources.
mustBuildScanned(inclusionsMap, externalQualifiedClasses, projectFolderPath, sourceFolder) ==
    IF externalQualifiedClasses.st # "ok"
    THEN Throw(inclusionsMap.w)                         \* line 374
    ELSE mustBuildResolved(inclusionsMap.w,
             getMatchingSWCs(inclusionsMap.val, externalQualifiedClasses.val,
                             "undefined"),
             projectFolderPath, sourceFolder)

\* Lines 373-410, given the index.
mustBuildIndexed(inclusionsMap, projectFolderPath, sourceFolder) ==
    IF inclusionsMap.st # "ok" THEN Throw(inclusionsMap.w)
    ELSE mustBuildScanned(inclusionsMap,
             listClassImports(inclusionsMap.w, sourceFolder),
             projectFolderPath, sourceFolder)

\* Lines 364-412 ending, for a project without a source folder, the way
\* lines 462-469 of deleteCache do: the inclusions file is deleted.
mustBuildDroppingCache(w, projectFolderPath, sourceFolder) ==
    IF sourceFolder.st # "ok" THEN Throw(w)
    ELSE IF ~(sourceFolder.val.def /\ existsSync(w, sourceFolder.val.v))
    THEN Ret(FALSE,
             deletePathNode(w,
                 cacheFileOf(getWorkspacePath(projectFolderPath))))
    ELSE IF ~existsSync(w, binFolderOf(sourceFolder.val.v))
    THEN Ret(TRUE, w)
    ELSE mustBuildIndexed(
             getInclusionsMap(w, getWorkspacePath(projectFolderPath), TRUE),
             projectFolderPath, sourceFolder.val.v)

\* Lines 364-412, given the source folder.
mustBuildWithSources(w, projectFolderPath, sourceFolder) ==
    IF sourceFolder.st # "ok" THEN Throw(w)             \* line 363
    ELSE IF ~(sourceFolder.val.def /\ existsSync(w, sourceFolder.val.v))
    THEN Ret(FALSE, w)
    ELSE IF ~existsSync(w, binFolderOf(sourceFolder.val.v))
    THEN Ret(TRUE, w)                                   \* line 367
    ELSE mustBuildIndexed(
             getInclusionsMap(w, getWorkspacePath(projectFolderPath), TRUE),
             projectFolderPath, sourceFolder.val.v)

mustBuildLogged(w, projectFolderPath) ==
    IF ~existsSync(w, projectFolderPath) THEN Ret(FALSE, w)
    ELSE mustBuildWithSources(w, projectFolderPath,
             getSrcFolderOf(w, projectFolderPath, TRUE))

mustBuildProject(w, projectFolderPath) ==
    mustBuildLogged(logged(w, "mustBuildProject", projectFolderPath),
                    projectFolderPath)

RECURSIVE deleteCache(_, _, _)
RECURSIVE deleteCacheOfDependencies(_, _, _)

\* Line 439, given how the nested call ended.
afterNestedDelete(dep, externalSWCs, projectFolderPath) ==
    IF dep.st # "ok" THEN Throw(dep.w)
    ELSE deleteCacheOfDependencies(dep.w, Tail(externalSWCs),
                                   projectFolderPath)

\* Line 439: the flag the nested calls are made with.
nestedKeeps == TRUE

\* The loop of lines 433-440: nested calls keep the inclusions file.
deleteCacheOfDependencies(w, externalSWCs, projectFolderPath) ==
    IF externalSWCs = <<>> THEN Ret(FALSE, w)
    ELSE IF pathsAreEqual(w, dirname(dirname(Head(externalSWCs))),
                          projectFolderPath)
    THEN deleteCacheOfDependencies(w, Tail(externalSWCs), projectFolderPath)
    ELSE afterNestedDelete(
             deleteCache(w, dirname(dirname(Head(externalSWCs))),
                         nestedKeeps),
             externalSWCs, projectFolderPath)

\* Lines 444-459, given the application entry files.
deleteBinary(w, projectFolderPath, sourceFolder, apps) ==
    IF apps.st # "ok" THEN Throw(w)                     \* line 444
    ELSE Ret(FALSE,
             deletePathNode(w,
                 binaryFilePathOf(projectFolderPath, binFolderOf(sourceFolder),
                                  apps.val)))

\* Lines 433-459, given how the dependency loop ended.
deleteAfterDeps(deps, projectFolderPath, sourceFolder) ==
    IF deps.st # "ok" THEN Throw(deps.w)
    ELSE deleteBinary(deps.w, projectFolderPath, sourceFolder,
                      getProjectApplications(deps.w, sourceFolder))

\* Lines 432-459, given the resolved artifacts.
deleteResolved(w, externalSWCs, projectFolderPath, sourceFolder) ==
    IF externalSWCs.st # "ok" THEN Throw(w)
    ELSE deleteAfterDeps(
             deleteCacheOfDependencies(w, externalSWCs.val, projectFolderPath),
             projectFolderPath, sourceFolder)

\* Lines 431-459, given the index and the class references of the sources.
deleteScanned(inclusionsMap, externalQualifiedClasses, projectFolderPath, sourceFolder) ==
    IF externalQualifiedClasses.st # "ok"
    THEN Throw(inclusionsMap.w)                         \* line 431
    ELSE deleteResolved(inclusionsMap.w,
             getMatchingSWCs(inclusionsMap.val, externalQualifiedClasses.val,
                             "undefined"),
             projectFolderPath, sourceFolder)

\* Lines 430-459, given the index.
deleteIndexed(inclusionsMap, projectFolderPath, sourceFolder) ==
    IF inclusionsMap.st # "ok" THEN Throw(inclusionsMap.w)
    ELSE deleteScanned(inclusionsMap,
             listClassImports(inclusionsMap.w, sourceFolder),
             projectFolderPath, sourceFolder)

\* Lines 462-469: the top-level call deletes the inclusions file.
deleteInclusionsFile(own, workspacePath, keepInclusionsFile) ==
    IF own.st # "ok" THEN Throw(own.w)
    ELSE IF keepInclusionsFile THEN Ret(FALSE, own.w)
    ELSE Ret(FALSE, deletePathNode(own.w, cacheFileOf(workspacePath)))

\* Lines 427-469, given the source folder.
deleteWithSources(w, projectFolderPath, keepInclusionsFile, sourceFolder) ==
    IF sourceFolder.st # "ok" THEN Throw(w)             \* line 426
    ELSE IF sourceFolder.val.def /\ existsSync(w, sourceFolder.val.v)
    THEN deleteInclusionsFile(
             deleteIndexed(
                 getInclusionsMap(w, getWorkspacePath(projectFolderPath),
                                  TRUE),
                 projectFolderPath, sourceFolder.val.v),
             getWorkspacePath(projectFolderPath), keepInclusionsFile)
    ELSE deleteInclusionsFile(Ret(FALSE, w),
             getWorkspacePath(projectFolderPath), keepInclusionsFile)

\* Line 421: nothing is done for a path that does not exist.
deleteUnchecked(w, projectFolderPath, keepInclusionsFile) ==
    deleteWithSources(w, projectFolderPath, keepInclusionsFile,
        getSrcFolderOf(w, projectFolderPath, TRUE))

deleteLogged(w, projectFolderPath, keepInclusionsFile) ==
    IF ~existsSync(w, projectFolderPath) THEN Ret(FALSE, w)
    ELSE deleteWithSources(w, projectFolderPath, keepInclusionsFile,
             getSrcFolderOf(w, projectFolderPath, TRUE))

deleteCache(w, projectFolderPath, keepInclusionsFile) ==
    deleteLogged(
        logged(w, IF keepInclusionsFile THEN "deleteCache(keep)"
                  ELSE "deleteCache", projectFolderPath),
        projectFolderPath, keepInclusionsFile)

(***************************************************************************)
(* Specification of the workspace: the environment edits the file system   *)
(* (sources, binaries, the cache file) between the calls, and every call   *)
(* of getInclusionsMap, mustBuildProject and deleteCache runs as one step. *)
(* last records the most recent call: its arguments, the file system       *)
(* before it, how it ended (st), what it returned (val) and its log.       *)
(***************************************************************************)
Times == 0..MaxTime

\* What the cache file may hold: nothing but white space, text that is not
\* JSON, or the JSON text of an index written by an earlier run.
CacheContents ==
    {[kind |-> "blank", inclusions |-> <<>>],
     [kind |-> "garbage", inclusions |-> <<>>]}
    \cup {[kind |-> "json", inclusions |-> i] :
            i \in {<<>>, <<recA>>, <<recB, recA>>, <<recLibC, recA>>}}

world == [proj |-> proj, cache |-> cache, log |-> <<>>]

Init ==
    /\ proj = [n \in ProjNames |->
                  [kind |-> "dir", src |-> TRUE, srcTime |-> 0,
                   bin |-> FALSE, art |-> FALSE, artTime |-> 0]]
    /\ cache = CacheAbsent
    /\ last = Idle

\* --- the environment (between two runs of the program) ---
SetKind(n, k) ==
    /\ last = Idle
    /\ proj[n].kind # k
    /\ proj' = [proj EXCEPT ![n] = [NoProject EXCEPT !.kind = k]]
    /\ last' = Idle
    /\ UNCHANGED cache

WriteSources(n, t) ==
    /\ last = Idle
    /\ proj[n].kind = "dir"
    /\ ~(proj[n].src /\ proj[n].srcTime = t)
    /\ proj' = [proj EXCEPT ![n].src = TRUE, ![n].srcTime = t]
    /\ last' = Idle
    /\ UNCHANGED cache

RemoveSources(n) ==
    /\ last = Idle
    /\ proj[n].kind = "dir"
    /\ proj[n].src
    /\ proj' = [proj EXCEPT ![n].src = FALSE, ![n].srcTime = 0]
    /\ last' = Idle
    /\ UNCHANGED cache

MakeBin(n) ==
    /\ last = Idle
    /\ proj[n].kind = "dir"
    /\ ~proj[n].bin
    /\ proj' = [proj EXCEPT ![n].bin = TRUE]
    /\ last' = Idle
    /\ UNCHANGED cache

RemoveBin(n) ==
    /\ last = Idle
    /\ proj[n].kind = "dir"
    /\ proj[n].bin
    /\ proj' = [proj EXCEPT ![n].bin = FALSE, ![n].art = FALSE,
                            ![n].artTime = 0]
    /\ last' = Idle
    /\ UNCHANGED cache

Compile(n, t) ==
    /\ last = Idle
    /\ proj[n].kind = "dir"
    /\ proj[n].bin
    /\ ~(proj[n].art /\ proj[n].artTime = t)
    /\ proj' = [proj EXCEPT ![n].art = TRUE, ![n].artTime = t]
    /\ last' = Idle
    /\ UNCHANGED cache

RemoveArtifact(n) ==
    /\ last = Idle
    /\ proj[n].kind = "dir"
    /\ proj[n].art
    /\ proj' = [proj EXCEPT ![n].art = FALSE, ![n].artTime = 0]
    /\ last' = Idle
    /\ UNCHANGED cache

WriteCache(c) ==
    /\ last = Idle
    /\ cache # c
    /\ cache' = c
    /\ last' = Idle
    /\ UNCHANGED proj

RemoveCache ==
    /\ last = Idle
    /\ cache.kind # "absent"
    /\ cache' = CacheAbsent
    /\ last' = Idle
    /\ UNCHANGED proj

\* --- the program: one run makes one top-level call and exits ---
Called(op, path, keep, r) ==
    /\ last = Idle
    /\ proj' = r.w.proj
    /\ cache' = r.w.cache
    /\ last' = [op |-> op, path |-> path, keep |-> keep,
                before |-> [proj |-> proj, cache |-> cache],
                st |-> r.st, val |-> r.val, log |-> r.w.log]

GetInclusionsMap(silentMode) ==
    Called("getInclusionsMap", WS, silentMode,
           getInclusionsMap(world, WS, silentMode))

MustBuildProject(n) ==
    Called("mustBuildProject", projectPath(n), FALSE,
           mustBuildProject(world, projectPath(n)))

DeleteCache(n, keepInclusionsFile) ==
    Called("deleteCache", projectPath(n), keepInclusionsFile,
           deleteCache(world, projectPath(n), keepInclusionsFile))

Exit ==
    /\ last # Idle
    /\ last' = Idle
    /\ UNCHANGED <<proj, cache>>

Next ==
    \/ \E n \in ProjNames, k \in {"none", "file", "dir"} : SetKind(n, k)
    \/ \E n \in ProjNames, t \in Times : WriteSources(n, t)
    \/ \E n \in ProjNames : RemoveSources(n)
    \/ \E n \in ProjNames : MakeBin(n)
    \/ \E n \in ProjNames : RemoveBin(n)
    \/ \E n \in ProjNames, t \in Times : Compile(n, t)
    \/ \E n \in ProjNames : RemoveArtifact(n)
    \/ \E c \in CacheContents : WriteCache(c)
    \/ RemoveCache
    \/ \E silentMode \in BOOLEAN : GetInclusionsMap(silentMode)
    \/ \E n \in ProjNames : MustBuildProject(n)
    \/ \E n \in ProjNames, keep \in BOOLEAN : DeleteCache(n, keep)
    \/ Exit

Spec == Init /\ [][Next]_vars

(***************************************************************************)
(* readSwcClasses (lines 335-345) and the indexing of one archive of a lib *)
(* folder (lines 626-632).  What tar prints of catalog.xml is abstracted   *)
(* to the exit code and the ids of the <def id="..." /> tags the global    *)
(* pattern finds in it, in order.                                          *)
(***************************************************************************)
MaxDefs == 3

\* Ids as a catalog holds them: package and class separated by a colon.
DefIdPool == {<<"a", ":", "B">>, <<"B">>, <<"_", "a", ":", "B">>,
              <<"a", ".", "b", ":", "_", "C">>}

ShellResults ==
    [code : {0, 1}, defs : SeqsUpTo(DefIdPool, MaxDefs)]

\* def.replace(':', '.') of line 342: the first colon only.
replaceColon(def) ==
    IF ~Includes(def, ":") THEN def
    ELSE LET first == CHOOSE i \in 1..Len(def) :
                          def[i] = ":" /\ \A j \in 1..(i - 1) : def[j] # ":"
         IN  [i \in 1..Len(def) |-> IF i = first THEN "." ELSE def[i]]

\* The filter of line 343.
notUnderscored(def) == def[1] # "_"

\* readSwcClasses, given the result of shell.exec.  String.prototype.match
\* with a global pattern returns null when nothing matches, and line 342
\* calls .map on it.
readSwcClasses(result) ==
    IF result.code = 0
    THEN IF result.defs = <<>>
         THEN [st |-> "TypeError", val |-> <<>>]
         ELSE [st |-> "ok",
               val |-> SelectSeq([i \in 1..Len(result.defs) |->
                                     replaceColon(result.defs[i])],
                                 notUnderscored)]
    ELSE [st |-> "ok", val |-> <<>>]

\* Lines 627-631: the entry of one archive, consolidated into the index.
indexArchive(swcPath, classes, inclusions) ==
    consolidateInclusions([swcPath |-> swcPath, swcClasses |-> classes],
                          inclusions)

ArchiveInit ==
    /\ proj = [n \in ProjNames |-> NoProject]
    /\ cache = CacheAbsent
    /\ \E result \in ShellResults, inclusions \in {<<>>, <<recA>>} :
           last = [op |-> "exec", result |-> result,
                   inclusions |-> inclusions]

\* One iteration of libFiles.forEach (lines 626-632) on the archive
\* /w/C/lib/x.swc.
ReadArchive ==
    /\ last.op = "exec"
    /\ last' = [op |-> "readSwcClasses",
                result |-> last.result,
                before |-> last.inclusions,
                st |-> readSwcClasses(last.result).st,
                val |-> readSwcClasses(last.result).val,
                inclusions |->
                    IF readSwcClasses(last.result).st = "ok"
                    THEN indexArchive(swcInLibC,
                             readSwcClasses(last.result).val, last.inclusions)
                    ELSE last.inclusions]
    /\ UNCHANGED <<proj, cache>>

ArchiveNext == ReadArchive

SpecArchive == ArchiveInit /\ [][ArchiveNext]_vars

(***************************************************************************)
(* The index during a build: it starts empty (line 585) and grows by the   *)
(* calls of consolidateInclusions (lines 631 and 667), one per archive and *)
(* one per library project.                                                *)
(***************************************************************************)
MaxInserts == 3

\* Entries as lines 627-630 and 656-666 make them: an archive has
\* swcClasses only, a library both lists; either list may be empty.
EntryPool ==
    {recA, recB, recB2, recX, recLibC,
     [swcPath |-> swcInLibC, swcClasses |-> <<>>],
     [swcPath |-> swcOfB, swcClasses |-> <<>>, globalSwcClasses |-> <<>>],
     [swcPath |-> swcOfB, swcClasses |-> <<>>,
      globalSwcClasses |-> <<cls_B>>]}

IndexInit ==
    /\ proj = [n \in ProjNames |-> NoProject]
    /\ cache = CacheAbsent
    /\ last = [op |-> "build", inclusions |-> <<>>, inserts |-> 0]

Consolidate(inclusionEntry) ==
    /\ last.op \in {"build", "consolidateInclusions"}
    /\ last.inserts < MaxInserts
    /\ last' = [op |-> "consolidateInclusions",
                entry |-> inclusionEntry,
                before |-> last.inclusions,
                inclusions |->
                    consolidateInclusions(inclusionEntry, last.inclusions),
                inserts |-> last.inserts + 1]
    /\ UNCHANGED <<proj, cache>>

IndexNext == \E inclusionEntry \in EntryPool : Consolidate(inclusionEntry)

SpecIndex == IndexInit /\ [][IndexNext]_vars

(***************************************************************************)
(* Specification of one iteration of the scan of a candidate project       *)
(* (lines 639-677): every step applies lines 648-677 to one project        *)
(* directory, one source folder found under it, the application entry      *)
(* files of that folder and its listing of class files, and computes the   *)
(* binary file path of lines 365 and 388-399 for the same source folder.   *)
(***************************************************************************)
MaxNest == 1

\* The folders at most depth levels below dirPath, dirPath included.
RECURSIVE foldersUnder(_, _)
foldersUnder(dirPath, depth) ==
    IF depth = 0 THEN {dirPath}
    ELSE foldersUnder(dirPath, depth - 1)
             \cup {f \o SL \o <<"x">> : f \in foldersUnder(dirPath, depth - 1)}

\* The folders named src that getSrcFolderOf can find under dirPath.
SourceFolders(dirPath) ==
    {f \o SL \o sourceFolderPath : f \in foldersUnder(dirPath, MaxNest)}

\* Listings of class files, relative to the source folder and without
\* extension (listFiles(sourceFolder, sourceFileTypes, true, true)).
ClassFileSamples ==
    {<<>>,
     << <<"a", "/", "B">> >>,
     << <<"a", "/", "B">>, <<"a", "/", "C">> >>,
     << <<"B">> >>,
     << <<"a", "/", "B">>, <<"B">> >>}

\* The application entry files found in sourceFolder.
ApplicationSamples(sourceFolder) ==
    {<<>>, <<sourceFolder \o SL \o <<"C", ".", "m", "x", "m", "l">> >>}

ScanInit ==
    /\ proj = [n \in ProjNames |-> NoProject]
    /\ cache = CacheAbsent
    /\ \E n \in ProjNames, inclusions \in {<<>>, <<recLibC>>},
          classFiles \in ClassFileSamples :
         \E sourceFolder \in SourceFolders(projectPath(n)) :
           \E projectsApps \in ApplicationSamples(sourceFolder) :
             last = [op |-> "candidate", dirPath |-> projectPath(n),
                     sourceFolder |-> sourceFolder,
                     projectsApps |-> projectsApps,
                     classFiles |-> classFiles, inclusions |-> inclusions]

ScanProject ==
    /\ last.op = "candidate"
    /\ last' = [op |-> "scanLibrary",
                dirPath |-> last.dirPath,
                sourceFolder |-> last.sourceFolder,
                projectsApps |-> last.projectsApps,
                classFiles |-> last.classFiles,
                before |-> last.inclusions,
                inclusions |->
                    scanLibrary(world, <<last.dirPath>>, last.inclusions,
                        TRUE, Ret(last.projectsApps, world),
                        Defined(last.classFiles)).val,
                binaryFilePath |->
                    binaryFilePathOf(last.dirPath,
                        binFolderOf(last.sourceFolder), last.projectsApps)]
    /\ UNCHANGED <<proj, cache>>

ScanNext == ScanProject

SpecScan == ScanInit /\ [][ScanNext]_vars

(***************************************************************************)
(* Specification of the two listing functions alone: every step applies    *)
(* listFiles or listClassImports to one folder of one workspace.           *)
(***************************************************************************)
\* What the directory of one project may hold.
ProjectSamples ==
    {NoProject,
     [NoProject EXCEPT !.kind = "file"],
     [NoProject EXCEPT !.kind = "dir"],
     [NoProject EXCEPT !.kind = "dir", !.src = TRUE],
     [NoProject EXCEPT !.kind = "dir", !.src = TRUE, !.bin = TRUE],
     [NoProject EXCEPT !.kind = "dir", !.src = TRUE, !.bin = TRUE,
                       !.art = TRUE]}

\* The filters the program passes (lines 57, 228, 264, 624, 655, 756),
\* no filter at all, and the two opposite reserved tokens together.
FilterSamples ==
    {<<>>, <<"FOLDERS_ONLY">>, <<"**">>, <<"mxml">>, <<"as", "mxml", "fxg">>,
     <<"FILES_ONLY", "FOLDERS_ONLY">>}

ListedFolders ==
    {WS} \cup {projectPath(n) : n \in ProjNames}
         \cup {srcPathOf(n) : n \in ProjNames}

ListingInit ==
    /\ proj \in [ProjNames -> ProjectSamples]
    /\ cache = CacheAbsent
    /\ last = Idle

ListFiles(folder, filters) ==
    /\ last = Idle
    /\ last' = [op |-> "listFiles", folder |-> folder, filters |-> filters,
                val |-> listFiles(world, folder, filters, FALSE, FALSE)]
    /\ UNCHANGED <<proj, cache>>

ListClassImports(n) ==
    /\ last = Idle
    /\ last' = [op |-> "listClassImports", folder |-> srcPathOf(n),
                st |-> listClassImports(world, srcPathOf(n)).st,
                val |-> listClassImports(world, srcPathOf(n)).val]
    /\ UNCHANGED <<proj, cache>>

ListingNext ==
    \/ \E folder \in ListedFolders, filters \in FilterSamples :
           ListFiles(folder, filters)
    \/ \E n \in ProjNames : ListClassImports(n)

SpecListing == ListingInit /\ [][ListingNext]_vars

(***************************************************************************)
(* Properties of the resolver.                                             *)
(***************************************************************************)
Resolved == last.op = "getMatchingSWCs"

\* Positions of the records whose searched class list holds c literally.
providersOf(inclusions, searchField, c) ==
    {k \in 1..Len(inclusions) :
        /\ searchField \in DOMAIN inclusions[k]
        /\ \E j \in 1..Len(inclusions[k][searchField]) :
               inclusions[k][searchField][j] = c}

firstOf(S) == CHOOSE k \in S : \A j \in S : k <= j

\* C7: for every requested non-wildcard class, the resolver contributes the
\* artifact path of the first record in index order whose searched class
\* list contains the class literally, nothing when no record contains it,
\* and never a second artifact for the same class; a single exact request
\* returns exactly that contribution.
C7_ExactFirstWins ==
    Resolved =>
        /\ \A i \in 1..Len(last.out.matches) :
            LET fqn == last.classFQNs[i]
                prov == providersOf(last.inclusions, last.searchField, fqn)
            IN  ~havePartialFqn(fqn) =>
                    /\ Len(last.out.matches[i]) <= 1
                    /\ last.out.matches[i] =
                           IF prov = {} THEN <<>>
                           ELSE <<last.inclusions[firstOf(prov)].swcPath>>
                    /\ last.out.st = "ok" =>
                           \A j \in 1..Len(last.out.matches[i]) :
                               Includes(last.out.val, last.out.matches[i][j])
        /\ (Len(last.classFQNs) = 1 /\ ~havePartialFqn(last.classFQNs[1])
            /\ last.inclusions # <<>>)
               => (last.out.st = "ok" /\ last.out.val = last.out.matches[1])

\* A resolved exact class that two records with different artifacts provide.
C7_Witness ==
    /\ Resolved
    /\ last.out.st = "ok"
    /\ \E i \in 1..Len(last.out.matches) :
        LET fqn == last.classFQNs[i]
            prov == providersOf(last.inclusions, last.searchField, fqn)
        IN  /\ ~havePartialFqn(fqn)
            /\ \E k1, k2 \in prov :
                   last.inclusions[k1].swcPath # last.inclusions[k2].swcPath
            /\ last.out.val # <<>>
            /\ last.out.matches[i] =
                   <<last.inclusions[firstOf(prov)].swcPath>>

\* pkg is a prefix of class c made of whole dotted segments.
wholeSegmentPrefix(pkg, c) == StartsWith(c, pkg \o <<".">>)

isPackageWildcard(fqn) ==
    /\ Len(fqn) > 2
    /\ SubSeq(fqn, Len(fqn) - 1, Len(fqn)) = <<".", "*">>

\* C8: for a requested package wildcard pkg.*, a record's artifact is in the
\* matches if and only if some class of the searched list has pkg as a
\* prefix made of whole dotted segments.
C8_WildcardWholeSegments ==
    (Resolved /\ last.out.st = "ok") =>
        \A i \in 1..Len(last.out.matches) :
            LET fqn == last.classFQNs[i]
                pkg == SubSeq(fqn, 1, Len(fqn) - 2)
            IN  isPackageWildcard(fqn) =>
                    \A k \in 1..Len(last.inclusions) :
                        Includes(last.out.matches[i],
                                 last.inclusions[k].swcPath)
                        <=> \E r \in 1..Len(last.inclusions) :
                               /\ last.inclusions[r].swcPath =
                                      last.inclusions[k].swcPath
                               /\ last.searchField
                                      \in DOMAIN last.inclusions[r]
                               /\ \E j \in 1..Len(last.inclusions[r]
                                                    [last.searchField]) :
                                      wholeSegmentPrefix(pkg,
                                          last.inclusions[r]
                                              [last.searchField][j])

(***************************************************************************)
(* Properties of the index cache, of the staleness check and of the        *)
(* invalidation, over the last call made.                                  *)
(***************************************************************************)
IndexLoaded == last.op = "getInclusionsMap"

MustBuildCalled(n) ==
    last.op = "mustBuildProject" /\ last.path = projectPath(n)

DeleteCacheCalled(n) ==
    last.op = "deleteCache" /\ last.path = projectPath(n)

\* The events of the log that are named ev.
eventsNamed(log, ev) == {i \in 1..Len(log) : log[i].ev = ev}

\* The calls of the log made on the project at path.
callsOn(log, path) ==
    {i \in 1..Len(log) :
        /\ log[i].path = path
        /\ log[i].ev \in {"mustBuildProject", "deleteCache",
                          "deleteCache(keep)"}}

hasSources(w, n) == w.proj[n].kind = "dir" /\ w.proj[n].src

hasSourcesAndBin(w, n) == hasSources(w, n) /\ w.proj[n].bin

\* The class references of all the source files of project n, as a scan of
\* its source folder lists them.
importsOf(n) ==
    SortStrings(collectFqns([i \in 1..Len(SourceLayout[n]) |->
                                srcFilePath(n, i)], <<>>))

\* The artifacts the index resolves the references of project n to.
resolvedOf(index, n) == getMatchingSWCs(index, importsOf(n), "undefined").val

\* The projects other than n that own one of those artifacts.
ownersOf(index, n) ==
    {d \in ProjNames \ {n} :
        \E i \in 1..Len(resolvedOf(index, n)) :
            dirname(dirname(resolvedOf(index, n)[i])) = projectPath(d)}

\* n resolves one of its own references to its own artifact.
selfResolved(index, n) ==
    \E i \in 1..Len(resolvedOf(index, n)) :
        dirname(dirname(resolvedOf(index, n)[i])) = projectPath(n)

\* The artifact of n is present and no source file is newer than it.
upToDate(w, n) ==
    /\ hasSourcesAndBin(w, n)
    /\ w.proj[n].art
    /\ w.proj[n].srcTime <= w.proj[n].artTime

\* C1: when the cache file holds a parseable index, getInclusionsMap ends
\* normally, returns exactly the cached index, lists no folder, writes no
\* file and leaves the projects and the cache file as they were, whatever
\* the state of the projects.
C1_CacheShortCircuit ==
    (IndexLoaded /\ last.before.cache.kind = "json") =>
        /\ last.st = "ok"
        /\ last.val = last.before.cache.inclusions
        /\ last.log = <<Ev("getInclusionsMap", WS)>>
        /\ cache = last.before.cache
        /\ proj = last.before.proj

\* The cached index lists the artifacts of A and B, project B is gone and
\* the sources of A are newer than its artifact: the cache is returned.
C1_Witness ==
    /\ IndexLoaded
    /\ last.before.cache = [kind |-> "json", inclusions |-> <<recB, recA>>]
    /\ last.before.proj[<<"B">>].kind = "none"
    /\ last.before.proj[<<"A">>].art
    /\ last.before.proj[<<"A">>].srcTime > last.before.proj[<<"A">>].artTime
    /\ last.st = "ok"
    /\ last.val = <<recB, recA>>

\* C2: mustBuildProject of a project with a source folder and a bin folder
\* returns true when the index resolves one of its references to the
\* artifact of another project that has sources and lacks its artifact
\* (so that mustBuildProject of that project is true), whatever the state
\* of the project's own artifact.
C2_TransitiveStaleness ==
    \A n \in ProjNames :
        (/\ MustBuildCalled(n)
         /\ hasSourcesAndBin(last.before, n)
         /\ last.before.cache.kind = "json"
         /\ \E d \in ownersOf(last.before.cache.inclusions, n) :
                /\ hasSources(last.before, d)
                /\ ~(last.before.proj[d].bin /\ last.before.proj[d].art))
            => (last.st = "ok" /\ last.val = TRUE)

\* C3: mustBuildProject of a project with a source folder and a bin folder,
\* all of whose dependencies are up to date and have no dependencies of
\* their own, returns true exactly when its artifact is missing or its
\* sources are strictly newer than the artifact.
C3_OwnArtifactCheck ==
    \A n \in ProjNames :
        (/\ MustBuildCalled(n)
         /\ hasSourcesAndBin(last.before, n)
         /\ last.before.cache.kind = "json"
         /\ \A d \in ownersOf(last.before.cache.inclusions, n) :
                /\ upToDate(last.before, d)
                /\ ownersOf(last.before.cache.inclusions, d) = {})
            => /\ last.st = "ok"
               /\ last.val = (\/ ~last.before.proj[n].art
                              \/ last.before.proj[n].srcTime
                                     > last.before.proj[n].artTime)

C5_CacheDeletedOnce ==
    \A n \in ProjNames :
        (/\ DeleteCacheCalled(n)
         /\ ~last.keep
         /\ last.before.proj[n].kind # "none")
            => /\ last.st = "ok"
               /\ cache.kind = "absent"
               /\ eventsNamed(last.log, "deleteCache") = {1}
               /\ last.before.cache.kind # "absent" =>
                      /\ last.log[Len(last.log)]
                             = Ev("unlink", cacheFileOf(WS))
                      /\ Cardinality({i \in eventsNamed(last.log, "unlink") :
                             last.log[i].path = cacheFileOf(WS)}) = 1

\* The projects whose artifact a deleteCache of n reaches: n and the owners
\* of the artifacts its references resolve to, and theirs.
reachableFrom(w, index, n) ==
    LET near == {d \in ownersOf(index, n) : hasSources(w, d)}
    IN  {n} \cup near
            \cup {e \in ProjNames :
                     \E d \in near : e \in ownersOf(index, d)
                                         /\ hasSources(w, e)}

\* C6: deleteCache of a project with a source folder and a bin folder ends
\* normally and removes the artifact of exactly the projects reachable from
\* it through the index; every other file of every project is as before.
C6_DeletesReachableArtifacts ==
    \A n \in ProjNames :
        (/\ DeleteCacheCalled(n)
         /\ hasSourcesAndBin(last.before, n)
         /\ last.before.cache.kind = "json")
            => /\ last.st = "ok"
               /\ \A m \in ProjNames :
                      proj[m] =
                          IF m \in reachableFrom(last.before,
                                       last.before.cache.inclusions, n)
                          THEN [last.before.proj[m] EXCEPT !.art = FALSE,
                                                           !.artTime = 0]
                          ELSE last.before.proj[m]

\* C9: when the cache file exists and holds no parseable index (white space
\* only, or text that is not JSON), getInclusionsMap ends normally, having
\* listed the workspace folders and written the cache file, and the index
\* it returns is the one the cache file then holds.
C9_InvalidCacheRebuilt ==
    (IndexLoaded /\ last.before.cache.kind \in {"blank", "garbage"}) =>
        /\ last.st = "ok"
        /\ eventsNamed(last.log, "listFolders") # {}
        /\ eventsNamed(last.log, "writeFile") # {}
        /\ cache = [kind |-> "json", inclusions |-> last.val]

\* C10: mustBuildProject of a project with a source folder and no bin
\* folder returns true, without loading the index and without a nested
\* call.
C10_MissingBinFolder ==
    \A n \in ProjNames :
        (MustBuildCalled(n) /\ hasSources(last.before, n)
             /\ ~last.before.proj[n].bin)
            => /\ last.st = "ok"
               /\ last.val = TRUE
               /\ last.log = <<Ev("mustBuildProject", last.path)>>

\* Project n and another project with sources each resolve a reference to
\* an artifact the other owns.
onCycle(w, index, n) ==
    \E d \in ownersOf(index, n) :
        hasSourcesAndBin(w, d) /\ n \in ownersOf(index, d)

\* C11: mustBuildProject and deleteCache of a project that lies on a
\* dependency cycle of two projects recurse without end: no such call ever
\* comes to an end.
C11_CycleNeverReturns ==
    \A n \in ProjNames :
        (/\ MustBuildCalled(n) \/ DeleteCacheCalled(n)
         /\ hasSourcesAndBin(last.before, n)
         /\ last.before.cache.kind = "json")
            => ~onCycle(last.before, last.before.cache.inclusions, n)

\* The artifact paths matched for some requested class.
matchedPaths ==
    UNION {{last.out.matches[i][k] : k \in 1..Len(last.out.matches[i])} :
              i \in 1..Len(last.out.matches)}

\* C14: the list getMatchingSWCs returns holds exactly the matched artifact
\* paths, each once, in strictly descending order of their code units.
C14_DescendingAndUnique ==
    (Resolved /\ last.out.st = "ok") =>
        /\ {last.out.val[i] : i \in 1..Len(last.out.val)} = matchedPaths
        /\ \A i, j \in 1..Len(last.out.val) :
               i < j => StrLess(last.out.val[j], last.out.val[i])

\* Two artifacts are returned, one of them matched by two of the requests.
C14_Witness ==
    /\ Resolved
    /\ last.out.st = "ok"
    /\ Len(last.out.val) = 2
    /\ \E i, j \in 1..Len(last.out.matches) :
           /\ i < j
           /\ \E p \in matchedPaths :
                  Includes(last.out.matches[i], p)
                      /\ Includes(last.out.matches[j], p)

\* The artifacts of the records whose searched class list holds c.
collidingOn(c) ==
    {last.inclusions[k].swcPath :
        k \in providersOf(last.inclusions, last.searchField, c)}

\* C15: when more than one artifact of the index provides a requested exact
\* class, the call ends normally and the console holds a warning for that
\* class that names every one of those artifacts, with mustPrintLess set or
\* not.
C15_CollisionWarned ==
    Resolved =>
        \A i \in 1..Len(last.classFQNs) :
            (/\ ~havePartialFqn(last.classFQNs[i])
             /\ Cardinality(collidingOn(last.classFQNs[i])) > 1)
                => /\ last.out.st = "ok"
                   /\ \E n \in 1..Len(last.console) :
                          /\ last.console[n].fqn = last.classFQNs[i]
                          /\ \A p \in collidingOn(last.classFQNs[i]) :
                                 Includes(last.console[n].swcs, p)

\* C16: mustBuildProject of a path that does not exist, or that exists and
\* holds no source folder, returns false, makes no other call and leaves
\* the cache file as it was.
C16_NoSourcesNoBuild ==
    \A n \in ProjNames :
        (MustBuildCalled(n) /\ ~hasSources(last.before, n))
            => /\ last.st = "ok"
               /\ last.val = FALSE
               /\ last.log = <<Ev("mustBuildProject", last.path)>>
               /\ cache = last.before.cache

\* C17: deleteCache of a path that does not exist ends normally, makes no
\* other call and no file operation, and leaves every project and the
\* cache file as they were, whether the inclusions file is to be kept or
\* not.
C17_MissingProjectNoOp ==
    \A n \in ProjNames :
        (DeleteCacheCalled(n) /\ last.before.proj[n].kind = "none")
            => /\ last.st = "ok"
               /\ Len(last.log) = 1
               /\ proj = last.before.proj
               /\ cache = last.before.cache

\* deleteCache of a missing project, not keeping the inclusions file, with
\* a cache file and an artifact of another project present: both are still
\* there.
C17_Witness ==
    \E n \in ProjNames :
        /\ DeleteCacheCalled(n)
        /\ ~last.keep
        /\ last.before.proj[n].kind = "none"
        /\ last.before.cache.kind = "json"
        /\ cache.kind = "json"
        /\ \E m \in ProjNames : last.before.proj[m].art /\ proj[m].art

\* C18: readSwcClasses ends normally for every archive; its list is empty
\* when tar fails or the catalog declares no class, never holds an id that
\* begins with an underscore, and an archive with an empty list adds no
\* record to the index.
C18_ArchiveFailureNonFatal ==
    last.op = "readSwcClasses" =>
        /\ last.st = "ok"
        /\ (last.result.code # 0 \/ last.result.defs = <<>>)
               => last.val = <<>>
        /\ \A i \in 1..Len(last.val) : last.val[i][1] # "_"
        /\ last.val = <<>> => last.inclusions = last.before

\* The number of classes a record lists under field, 0 when it has no such
\* property.
sizeOf(record, field) ==
    IF field \in DOMAIN record THEN Len(record[field]) ELSE 0

\* recordA is not after recordB in the ascending order of (number of
\* qualified classes, number of unqualified classes).
notAfter(recordA, recordB) ==
    \/ sizeOf(recordA, "swcClasses") < sizeOf(recordB, "swcClasses")
    \/ /\ sizeOf(recordA, "swcClasses") = sizeOf(recordB, "swcClasses")
       /\ sizeOf(recordA, "globalSwcClasses")
              <= sizeOf(recordB, "globalSwcClasses")

\* C19: after every call of consolidateInclusions during a build the index
\* is sorted ascending by (number of qualified classes, number of
\* unqualified classes) and holds no record without any class.
C19_IndexSorted ==
    last.op = "consolidateInclusions" =>
        /\ \A i, j \in 1..Len(last.inclusions) :
               i < j => notAfter(last.inclusions[i], last.inclusions[j])
        /\ \A i \in 1..Len(last.inclusions) :
               sizeOf(last.inclusions[i], "swcClasses")
                   + sizeOf(last.inclusions[i], "globalSwcClasses") > 0

\* The third insertion put a record with as many qualified classes as its
\* successor, and fewer unqualified ones, in front of records inserted
\* before it.
C19_Witness ==
    /\ last.op = "consolidateInclusions"
    /\ Len(last.before) = 2
    /\ Len(last.inclusions) = 3
    /\ last.inclusions[1] = last.entry
    /\ sizeOf(last.inclusions[1], "swcClasses")
           = sizeOf(last.inclusions[2], "swcClasses")
    /\ sizeOf(last.inclusions[1], "globalSwcClasses")
           < sizeOf(last.inclusions[2], "globalSwcClasses")

\* The project directories right under the workspace root.
childDirs(w) == {n \in ProjNames : w.proj[n].kind = "dir"}

\* C20: a full build (no cache file) ends normally; every record of the
\* index it returns has an artifact path two levels below a directory
\* right under the workspace root, and every such directory that is a
\* library project with sources has its record.
C20_ImmediateChildrenOnly ==
    (IndexLoaded /\ last.before.cache.kind = "absent") =>
        /\ last.st = "ok"
        /\ \A i \in 1..Len(last.val) :
               \E n \in childDirs(last.before) :
                   dirname(dirname(last.val[i].swcPath)) = projectPath(n)
        /\ \A n \in childDirs(last.before) :
               (last.before.proj[n].src
                    /\ \A k \in 1..Len(SourceLayout[n]) :
                           ~SourceLayout[n][k].appTag)
                   => \E i \in 1..Len(last.val) :
                          last.val[i].swcPath
                              = binPathOf(n) \o SL \o toBinaryFileName(n)
                                    \o <<".">> \o swcFileType

(***************************************************************************)
(* Properties of the scan of one candidate project.                        *)
(***************************************************************************)
Scanned == last.op = "scanLibrary"

\* The artifact path a library at dirPath is recorded under:
\* <dirPath>/bin/<normalised directory name>.swc
derivedSwcPath(dirPath) ==
    dirPath \o SL \o <<"b", "i", "n">> \o SL
        \o toBinaryFileName(basename(dirPath)) \o <<".", "s", "w", "c">>

\* The positions of the index whose record is keyed by swcPath.
keyedBy(inclusions, swcPath) ==
    {k \in 1..Len(inclusions) : inclusions[k].swcPath = swcPath}

\* C21: a candidate project whose source root holds an application entry
\* file gets no record keyed by its derived artifact path; the scan leaves
\* the index as it was.
C21_ApplicationsNotIndexed ==
    (Scanned /\ last.projectsApps # <<>>)
        => /\ keyedBy(last.inclusions, derivedSwcPath(last.dirPath)) = {}
           /\ last.inclusions = last.before

\* An application project with class files was scanned next to an index
\* that already held a record.
C21_Witness ==
    /\ Scanned
    /\ last.projectsApps # <<>>
    /\ last.classFiles # <<>>
    /\ last.before # <<>>
    /\ last.inclusions = last.before

(***************************************************************************)
(* Properties of the cache file.                                           *)
(***************************************************************************)
ProgramCalled ==
    last.op \in {"getInclusionsMap", "mustBuildProject", "deleteCache"}

\* C22: a call of the program leaves the cache file as it was, or deletes
\* it, or replaces it as a whole by the index of one completed build: the
\* file is written once, by a call that ended normally, and a build called
\* directly returns the very index it wrote.
C22_CacheAllOrNothing ==
    ProgramCalled
        => \/ cache = last.before.cache
           \/ cache = CacheAbsent
           \/ /\ cache.kind = "json"
              /\ last.st = "ok"
              /\ Cardinality(eventsNamed(last.log, "writeFile")) = 1
              /\ last.op = "getInclusionsMap" => cache.inclusions = last.val

\* A build was attempted over an unparseable cache file and left the file
\* as it was.
C22_Witness ==
    /\ last.op = "getInclusionsMap"
    /\ eventsNamed(last.log, "listFolders") # {}
    /\ last.before.cache.kind = "garbage"
    /\ cache = last.before.cache

(***************************************************************************)
(* Properties of the listing functions.                                    *)
(***************************************************************************)
\* The elements of a list.
elementsOf(list) == {list[i] : i \in 1..Len(list)}

\* The source files under the source folder of the project n.
sourceFilesOf(n) == {srcFilePath(n, i) : i \in 1..Len(SourceLayout[n])}

\* The class references the source files of the project n contain.
referencesOf(n) ==
    UNION {elementsOf(SourceLayout[n][i].refs) :
               i \in 1..Len(SourceLayout[n])}

\* A list in strictly ascending order: sorted, and without duplicates.
strictlyAscending(list) ==
    \A i \in 1..Len(list) - 1 : StrLess(list[i], list[i + 1])

\* C24: on the source folder of a project, listClassImports returns the
\* references of all the source files of the folder, sorted and without
\* duplicates.
C24_ImportsSortedUnion ==
    \A n \in ProjNames :
        (last.op = "listClassImports" /\ last.folder = srcPathOf(n)
             /\ isDirectory(world, srcPathOf(n)))
            => /\ last.st = "ok"
               /\ elementsOf(last.val) = referencesOf(n)
               /\ strictlyAscending(last.val)

\* The paths of the modelled file system.
KnownPaths ==
    {WS, cacheFileOf(WS)}
        \cup UNION {{projectPath(n), srcPathOf(n), binPathOf(n), artPathOf(n)}
                        \cup sourceFilesOf(n)
                        \cup {dirname(f) : f \in sourceFilesOf(n)} :
                    n \in ProjNames}

\* The existing paths below folder, at any depth.
containedPaths(w, folder) ==
    {f \in KnownPaths : existsSync(w, f) /\ StartsWith(f, folder \o SL)}

\* The text of a search pattern.
patternText(pattern) ==
    CASE pattern = "as" -> <<"a", "s">>
      [] pattern = "mxml" -> <<"m", "x", "m", "l">>
      [] pattern = "fxg" -> <<"f", "x", "g">>
      [] OTHER -> <<>>

\* The path holds a match of the pattern ("**" matches any text).
containsMatch(f, pattern) ==
    pattern = "**" \/ Includes(f, patternText(pattern))

searchPatternsOf(filters) ==
    elementsOf(filters) \ {"FOLDERS_ONLY", "FILES_ONLY", "NO_DOT_NAMES"}

\* The path passes every reserved token of the filters and, when search
\* patterns are given, holds a match of one of them.
passesFilters(w, f, filters) ==
    /\ "FOLDERS_ONLY" \in elementsOf(filters) => isDirectory(w, f)
    /\ "FILES_ONLY" \in elementsOf(filters) => ~isDirectory(w, f)
    /\ "NO_DOT_NAMES" \in elementsOf(filters) => Head(basename(f)) # "."
    /\ searchPatternsOf(filters) # {}
           => \E pattern \in searchPatternsOf(filters) :
                  containsMatch(f, pattern)

\* C25: on an existing directory listFiles returns a list that holds
\* exactly the contained paths, at any depth, that pass the filters; with
\* both FILES_ONLY and FOLDERS_ONLY the list is empty.
C25_ListFilesFiltered ==
    (last.op = "listFiles" /\ isDirectory(world, last.folder))
        => /\ last.val.def
           /\ elementsOf(last.val.v)
                  = {f \in containedPaths(world, last.folder) :
                         passesFilters(world, f, last.filters)}
           /\ {"FILES_ONLY", "FOLDERS_ONLY"} \subseteq elementsOf(last.filters)
                  => last.val.v = <<>>

C28_MustBuildFrame ==
    \A n \in ProjNames :
        MustBuildCalled(n)
            => /\ proj = last.before.proj
               /\ \/ cache = last.before.cache
                  \/ /\ last.before.cache.kind # "json"
                     /\ cache.kind = "json"

\* mustBuildProject was called on an existing path while the cache file
\* held an index and some project had an artifact: all are still there.
C28_Witness ==
    \E n \in ProjNames :
        /\ MustBuildCalled(n)
        /\ last.before.proj[n].kind # "none"
        /\ last.before.cache.kind = "json"
        /\ cache = last.before.cache
        /\ \E m \in ProjNames : last.before.proj[m].art /\ proj[m].art

\* C29: deleteCache of a path that exists and holds no source folder ends
\* normally, makes no nested call, deletes no artifact and, unless the
\* inclusions file is to be kept, leaves the cache file absent.
C29_NoSourcesStillClearsCache ==
    \A n \in ProjNames :
        (/\ DeleteCacheCalled(n)
         /\ last.before.proj[n].kind # "none"
         /\ ~hasSources(last.before, n))
            => /\ last.st = "ok"
               /\ proj = last.before.proj
               /\ Cardinality(eventsNamed(last.log, "deleteCache")
                      \cup eventsNamed(last.log, "deleteCache(keep)")) = 1
               /\ ~last.keep => cache.kind = "absent"
               /\ last.keep => cache = last.before.cache

canonicalRequest(classFQNs) ==
    CHOOSE r \in SeqsUpTo(elementsOf(classFQNs),
                          Cardinality(elementsOf(classFQNs))) :
        elementsOf(r) = elementsOf(classFQNs)

\* C30: for the index and the search field of the call, the request list
\* ends the same way and returns the same list as the list chosen for its
\* set of class references, so any two request lists of the same set, in
\* any order and with any repetition, return the same list; and every
\* returned path is the swcPath of a record of the index.
C30_DependsOnRequestSet ==
    Resolved
        => /\ getMatchingSWCs(last.inclusions,
                  canonicalRequest(last.classFQNs),
                  last.searchField).st = last.out.st
           /\ getMatchingSWCs(last.inclusions,
                  canonicalRequest(last.classFQNs),
                  last.searchField).val = last.out.val
           /\ \A i \in 1..Len(last.out.val) :
                  keyedBy(last.inclusions, last.out.val[i]) # {}

\* Two different class references were requested, in another order than
\* the one chosen for their set, and two artifacts were returned.
C30_Witness ==
    /\ Resolved
    /\ Len(last.classFQNs) = 2
    /\ last.classFQNs[1] # last.classFQNs[2]
    /\ canonicalRequest(last.classFQNs) # last.classFQNs
    /\ last.out.st = "ok"
    /\ Len(last.out.val) = 2
    /\ last.out.matches[1] # last.out.matches[2]

====
